---- MODULE Spec2Model ----
(***************************************************************************)
(* Model of the meal-planner workflow of MealAgent/execution.py: the       *)
(* AgentState record, the three node functions (process_images,            *)
(* image_clarification_node, generate_meal_recipe), the two decision       *)
(* functions (decision_node, regenerate_meal) and the edges of             *)
(* build_graph.                                                            *)
(*                                                                         *)
(* Conventions.                                                            *)
(*  - An Optional[T] value is a sequence of length at most one: None is    *)
(*    <<>> and a present value x is <<x>>.                                 *)
(*  - A Python string built by formatting is the sequence of its pieces,   *)
(*    so f"Chef Error: {e}" is <<"Chef Error: ", e>> and str(e) is <<e>>.  *)
(*  - The hosted model is opaque: the variable llm holds what the adapter  *)
(*    will answer to the next image-analysis call and to the next recipe   *)
(*    call (a result or an exception); it is chosen again after each call. *)
(*  - A run is either started by the graph's invoke (origin "invoke":      *)
(*    default AgentState plus the caller's input, at START) or is a node   *)
(*    or decision function applied to an arbitrary AgentState (origin      *)
(*    "direct"), after which the graph's edges are followed as usual.      *)
(***************************************************************************)
EXTENDS Integers, Sequences, FiniteSets, TLC

VARIABLES
    state,     \* the AgentState held by the graph's channels (lines 56-66)
    pc,        \* the node or decision about to run or suspended at interrupt(),
               \* "START", "END", or "raised" when a node's exception ended the run
    llm,       \* what self.model answers to the next analysis and recipe call
    pre,       \* the AgentState the latest node or decision function was given
    last,      \* what the latest node or decision function did (see Called)
    origin,    \* "invoke": run of the compiled graph; "direct": function on a state
    input,     \* the AgentState the run started from
    executed,  \* the nodes executed so far in the run
    callers,   \* the nodes that called the model adapter so far in the run
    session,   \* st.session_state of the Streamlit driver (src/app.py 75-88)
    checkpoints, \* what the graph's InMemorySaver holds for each thread id
    run        \* the latest app.invoke of the driver (see Invoked)

app_vars == <<session, checkpoints, run>>
vars == <<state, pc, llm, pre, last, origin, input, executed, callers,
          session, checkpoints, run>>

\* ---------------------------------------------------------------- bounds
\* Longest image list of an initial ConversationInput.
MaxImages == 2
\* Longest message log of an initial state.
MaxInitMsgs == 1
\* Longest error list of an initial state.
MaxInitErrors == 1
\* The regenerate loop is cut when the error list or the log gets this long.
MaxErrors == 2
MaxMsgs == 2
\* Largest value of the session's recipe counter.
MaxCounter == 2

\* ---------------------------------------------------------------- values
None == <<>>
Some(x) == <<x>>
IsNone(o) == o = <<>>
Val(o) == o[1]

RECURSIVE SeqsUpTo(_, _)
SeqsUpTo(S, n) ==
    IF n = 0 THEN {<<>>}
    ELSE LET shorter == SeqsUpTo(S, n - 1)
         IN shorter \cup {Append(s, x) : s \in shorter, x \in S}

ImagePaths == {"fridge.jpg"}
ResumeUrls == {"new.jpg"}
Goals == {"Quick Meal"}
Instructions == {"vegetarian"}
ExcMsgs == {"RESOURCE_EXHAUSTED"}

\* class CurrentConversationInput
CurrentConversationInput ==
    [goal : Goals, instructions : Instructions,
     images : {None} \cup {Some(l) : l \in SeqsUpTo(ImagePaths, MaxImages)}]

\* class ImageProcessingOutput; the default instance has every field None.
\* image_description and clarification_question are read by no node or
\* decision and travel with image_name.
DefaultImageProcessingOutput == [image_name |-> None, clarification_needed |-> None]
ImageProcessingOutput ==
    {DefaultImageProcessingOutput}
    \cup [image_name : {Some("tomatoes")},
          clarification_needed : {None, Some(TRUE), Some(FALSE)}]

\* class MealRecipe; cooking_steps is Optional[List[str]] with default [].
\* The other descriptive fields travel with meal_name.
MealRecipe ==
    [meal_name : {"stew"},
     cooking_steps : {Some(<<>>), Some(<<"chop", "cook">>)},
     approve : {None}]

\* class ExecutionTime, and the two values Optional[ExecutionTime] admits
ExecutionTimeValues ==
    {[type |-> "NoneType"], [type |-> "ExecutionTime", start_time |-> None]}

\* langchain messages: a role and a content made of blocks
StrContent(text) == <<[type |-> "str", text |-> text]>>
HumanMessage(content) == [role |-> "human", content |-> content]
SystemMessage(content) == [role |-> "system", content |-> content]

\* AgentState.retry_policy default
retry_policy_default == 2

\* class AgentState with its defaults
DefaultAgentState ==
    [messages |-> <<>>,
     current_conversation_input |-> None,
     image_processing_output |-> DefaultImageProcessingOutput,
     meal_recipe |-> None,
     errors |-> <<>>,
     retry_policy |-> retry_policy_default,
     clarification |-> None,
     need_human |-> FALSE,
     execution_time |-> [type |-> "NoneType"],
     current_node_name |-> None]

AgentState ==
    [messages : SeqsUpTo({HumanMessage(StrContent("hello"))}, MaxInitMsgs),
     current_conversation_input : {None} \cup {Some(c) : c \in CurrentConversationInput},
     image_processing_output : ImageProcessingOutput,
     meal_recipe : {None} \cup {Some(r) : r \in MealRecipe},
     errors : SeqsUpTo({<<"earlier error">>}, MaxInitErrors),
     retry_policy : {retry_policy_default},
     clarification : {None},
     need_human : BOOLEAN,
     execution_time : ExecutionTimeValues,
     current_node_name : {None}]

\* ------------------------------------------------------- the model adapter
\* with_structured_output(schema).invoke(messages): a populated instance of
\* the schema, or an exception.
ImageAnswers ==
    {[ok |-> FALSE, exc |-> e] : e \in ExcMsgs}
    \cup {[ok |-> TRUE, output |-> o] : o \in
            [image_name : {Some("tomatoes")},
             clarification_needed : {None, Some(TRUE), Some(FALSE)}]}
ChefAnswers ==
    {[ok |-> FALSE, exc |-> e] : e \in ExcMsgs}
    \cup {[ok |-> TRUE, output |-> r] : r \in
            [meal_name : {"curry"},
             cooking_steps : {Some(<<>>), Some(<<"chop", "cook">>)},
             approve : {None}]}
LLM == [image : ImageAnswers, chef : ChefAnswers]

\* ------------------------------------------------------------ node results
\* A call of a node function ends by returning a value (an AgentState or an
\* update dict) or by raising; calls counts the model-adapter calls it made.
Returned(v, n) == [raised |-> FALSE, exc |-> "", value |-> v, calls |-> n]
Raised(e, v, n) == [raised |-> TRUE, exc |-> e, value |-> v, calls |-> n]

\* dict.get(key, default) on a resume payload
DictGet(d, k, default) == IF k \in DOMAIN d THEN d[k] ELSE default
\* Python's None where the slot otherwise holds a str
NoneStr == "None"

\* `not x` for an Optional[List]: None and [] are both falsy
Falsy(optlist) == IsNone(optlist) \/ Val(optlist) = <<>>

\* state.execution_time["start_time"] = ... needs __setitem__, which neither
\* NoneType nor the pydantic model ExecutionTime defines.
SupportsItemAssignment_any(v) == TRUE
SupportsItemAssignment(v) == v.type = "dict"

\* generate_image_blocks_from_path: the image_url block of one image file
generate_image_blocks_from_path(path) == [type |-> "image_url", url |-> path]

image_system_prompt == SystemMessage(StrContent("meal-planning assistant"))
image_human_message(images) ==
    HumanMessage(<<[type |-> "text", text |-> "Analyze the provided image."]>>
                 \o [i \in 1..Len(images) |-> generate_image_blocks_from_path(images[i])])

\* ------------------------------------------------------------------- nodes
\* process_images(state) with `answer` what the adapter answers if called
process_images(s, answer) ==
    LET s1 == [s EXCEPT !.current_node_name = Some("process_images")]
    IN  IF ~SupportsItemAssignment(s1.execution_time)
        THEN Raised("TypeError", s1, 0)
        ELSE
        LET s2 == [s1 EXCEPT !.execution_time =
                        [type |-> s1.execution_time.type, start_time |-> Some("now")]]
            cci == s2.current_conversation_input
        IN  IF IsNone(cci) \/ Falsy(Val(cci).images)
            THEN Returned([s2 EXCEPT !.errors = Append(@, <<"No images provided">>)], 0)
            ELSE
            LET images == Val(Val(cci).images)
                current_messages ==
                    s2.messages \o <<image_system_prompt, image_human_message(images)>>
            IN  IF answer.ok
                THEN Returned([s2 EXCEPT !.image_processing_output = answer.output,
                                         !.messages = current_messages], 1)
                ELSE Returned([s2 EXCEPT !.errors = Append(@, <<answer.exc>>)], 1)

\* image_clarification_node(state) resumed with user_response, the value
\* interrupt() returns; the node returns an update dict
image_clarification_node_keep(s, user_response) ==
    Returned([messages |-> <<>>, need_human |-> s.need_human], 0)
image_clarification_node_append(s, user_response) ==
    IF IsNone(s.current_conversation_input)
    THEN Raised("AttributeError", s, 0)
    ELSE LET old == Val(s.current_conversation_input)
             new_input == [old EXCEPT !.images =
                 Some((IF IsNone(@) THEN <<>> ELSE Val(@))
                      \o <<DictGet(user_response, "url", NoneStr)>>)]
         IN  Returned([current_conversation_input |-> Some(new_input),
                       need_human |-> FALSE], 0)
image_clarification_node_echo(s, user_response) ==
    IF IsNone(s.current_conversation_input)
    THEN Raised("AttributeError", s, 0)
    ELSE LET new_input == [Val(s.current_conversation_input) EXCEPT
                               !.images = Some(<<DictGet(user_response, "url", NoneStr)>>)]
         IN  Returned([current_conversation_input |-> Some(new_input),
                       messages |-> <<HumanMessage(StrContent(DictGet(user_response, "text", "")))>>,
                       need_human |-> FALSE], 0)
image_clarification_node(s, user_response) ==
    IF DictGet(user_response, "type", NoneStr) = "image_url"
    THEN IF IsNone(s.current_conversation_input)
         THEN Raised("AttributeError", s, 0)
         ELSE LET new_input == [Val(s.current_conversation_input) EXCEPT
                                    !.images = Some(<<DictGet(user_response, "url", NoneStr)>>)]
              IN  Returned([current_conversation_input |-> Some(new_input),
                            need_human |-> FALSE], 0)
    ELSE Returned([messages |-> <<HumanMessage(StrContent(DictGet(user_response, "text", "")))>>,
                   need_human |-> FALSE], 0)

\* generate_meal_recipe(state) with `answer` what the adapter answers
generate_meal_recipe_clear(s, answer) ==
    IF IsNone(s.current_conversation_input)
    THEN Raised("AttributeError", s, 0)
    ELSE IF answer.ok
         THEN Returned([s EXCEPT !.meal_recipe = Some(answer.output)], 1)
         ELSE Returned([s EXCEPT !.meal_recipe = None,
                                 !.errors = Append(@, <<answer.exc>>)], 1)
generate_meal_recipe_stub(s, answer) ==
    IF IsNone(s.current_conversation_input)
    THEN Raised("AttributeError", s, 0)
    ELSE IF answer.ok
         THEN Returned([s EXCEPT !.meal_recipe = Some(answer.output)], 1)
         ELSE Returned([s EXCEPT
                 !.meal_recipe = Some([meal_name |-> "curry", cooking_steps |-> Some(<<>>),
                                       approve |-> None]),
                 !.errors = Append(@, <<"Chef Error: ", answer.exc>>)], 1)
generate_meal_recipe_retry(s, answer) ==
    IF IsNone(s.current_conversation_input)
    THEN Raised("AttributeError", s, 0)
    ELSE IF answer.ok
         THEN Returned([s EXCEPT !.meal_recipe = Some(answer.output)], 1)
         ELSE IF s.retry_policy > 0
              THEN Returned([s EXCEPT !.retry_policy = @ - 1,
                                      !.errors = Append(@, <<"Chef Error: ", answer.exc>>)], 2)
              ELSE Returned([s EXCEPT !.errors = Append(@, <<"Chef Error: ", answer.exc>>)], 1)
generate_meal_recipe(s, answer) ==
    IF IsNone(s.current_conversation_input)
    THEN Raised("AttributeError", s, 0)
    ELSE IF answer.ok
         THEN Returned([s EXCEPT !.meal_recipe = Some(answer.output)], 1)
         ELSE Returned([s EXCEPT !.errors = Append(@, <<"Chef Error: ", answer.exc>>)], 1)

\* --------------------------------------------------------------- decisions
decision_node_unset(s) ==
    IF s.image_processing_output.clarification_needed # Some(FALSE)
    THEN "image_clarification_node"
    ELSE "generate_meal_recipe"
decision_node(s) ==
    IF s.image_processing_output.clarification_needed = Some(TRUE)
    THEN "image_clarification_node"
    ELSE "generate_meal_recipe"

\* str.lower() on the answers a human gives to the approve/reject interrupt
Responses == {"False", "false", "True", "approve", "reject"}
Lower(str) ==
    CASE str = "False" -> "false"
      [] str = "True" -> "true"
      [] OTHER -> str

\* regenerate_meal(state) resumed with user_response
regenerate_meal_any(s, user_response) ==
    IF Lower(user_response) = Lower("False")
    THEN "generate_meal_recipe"
    ELSE "END"
regenerate_meal(s, user_response) ==
    IF IsNone(s.meal_recipe) \/ Lower(user_response) = Lower("False")
    THEN "generate_meal_recipe"
    ELSE "END"

\* ------------------------------------------------------------------- graph
\* add_conditional_edges("process_images", decision_node, {...})
DecisionPathMap_end ==
    [image_clarification_node |-> "image_clarification_node",
     generate_meal_recipe |-> "END"]
DecisionPathMap ==
    [image_clarification_node |-> "image_clarification_node",
     generate_meal_recipe |-> "generate_meal_recipe"]
\* add_conditional_edges("generate_meal_recipe", regenerate_meal, {...})
RegeneratePathMap_reanalyse ==
    [generate_meal_recipe |-> "process_images", END |-> "END"]
RegeneratePathMap ==
    [generate_meal_recipe |-> "generate_meal_recipe", END |-> "END"]

\* interrupt(payload): the run is suspended and the call returns only once a
\* resume value has been supplied for the run; `values` are the resume values.
Interrupt_nowait(values) == [supplied : BOOLEAN, value : values]
Interrupt(values) == [supplied : {TRUE}, value : values]
ResumeOf(i) == IF i.supplied THEN Some(i.value) ELSE None

\* A node's return value is written to the state channels: `messages` has the
\* reducer operator.add (the written list is concatenated to the channel),
\* every other key a node writes replaces the channel's value.
Commit_overwrite(old, update) ==
    [k \in DOMAIN old |-> IF k \in DOMAIN update THEN update[k] ELSE old[k]]
Commit(old, update) ==
    [k \in DOMAIN old |->
        IF k \in DOMAIN update
        THEN IF k = "messages" THEN old[k] \o update[k] ELSE update[k]
        ELSE old[k]]

\* Resume payloads of the clarification interrupt (a mapping, as the clarify
\* page sends {"text": answer})
ClarificationResumes ==
    {[type |-> "image_url", url |-> u] : u \in ResumeUrls}
    \cup {[type |-> "image_url"]}
    \cup {[text |-> "sweet potatoes"], [type |-> "text", text |-> "sweet potatoes"],
          [type |-> "text"]}

\* Positions: a node about to run, a decision about to be taken, a node or
\* decision suspended at its interrupt, END, or "raised" (the invocation
\* ended with the exception of a node).
\* `last` records the latest function executed: whether it raised, how many
\* model-adapter calls it made, the answer the adapter held for it, the resume
\* value it was given and the route it returned.
NoCall ==
    [node |-> "none", raised |-> FALSE, exc |-> "", calls |-> 0,
     answer |-> None, resume |-> None, route |-> None]
Called(node, r, answer, resume) ==
    [node |-> node, raised |-> r.raised, exc |-> r.exc, calls |-> r.calls,
     answer |-> answer, resume |-> resume, route |-> None]

\* The session of the Streamlit driver (src/app.py), see the driver below.
\* f"thread_{n}", as its pieces
ThreadId(n) == <<"thread_", n>>
ThreadIds == {ThreadId(n) : n \in 1 .. MaxCounter}
\* st.session_state.get('counter', 0): the key is absent until line 362
SessionCounter(ss) == IF IsNone(ss.counter) THEN 0 ELSE Val(ss.counter)
\* lines 75-88
InitialSession ==
    [step |-> "input",
     thread_id |-> ThreadId(1),
     uploaded_image_path |-> None,
     user_preferences |-> None,
     clarification_data |-> None,
     recipe_data |-> None,
     detected_ingredients |-> None,
     counter |-> None]
NoCheckpoints == [t \in ThreadIds |-> None]
NoRun ==
    [by |-> "none", thread_id |-> None, fresh |-> TRUE, raised |-> FALSE,
     result |-> None]

\* workflow.invoke(initial_state, config) on a fresh thread
InvokeInputs ==
    {[DefaultAgentState EXCEPT !.current_conversation_input = i] :
        i \in {None} \cup {Some(c) : c \in CurrentConversationInput}}

DirectEntries ==
    {"process_images", "decision_node", "image_clarification_node",
     "generate_meal_recipe", "regenerate_meal"}

Init ==
    /\ \/ origin = "invoke" /\ state \in InvokeInputs /\ pc = "START"
       \/ /\ origin = "direct"
          /\ pc \in DirectEntries
          /\ state \in AgentState
          /\ state.need_human => pc = "image_clarification_node"
          /\ state.execution_time.type # "NoneType" => pc = "process_images"
    /\ llm \in LLM
    /\ input = state
    /\ pre = state
    /\ last = NoCall
    /\ executed = {}
    /\ callers = {}
    /\ session = InitialSession
    /\ checkpoints = NoCheckpoints
    /\ run = NoRun

\* workflow.add_edge(START, "process_images")
Start ==
    /\ pc = "START"
    /\ pc' = "process_images"
    /\ UNCHANGED <<state, llm, pre, last, origin, input, executed, callers>>
    /\ UNCHANGED app_vars

\* the node process_images, then the conditional edge is pending
ProcessImages ==
    /\ pc = "process_images"
    /\ LET r == process_images(state, llm.image)
       IN  /\ pre' = state
           /\ last' = Called("process_images", r, Some(llm.image), None)
           /\ executed' = executed \cup {"process_images"}
           /\ callers' = IF r.calls > 0 THEN callers \cup {"process_images"} ELSE callers
           /\ IF r.calls > 0 THEN \E a \in ImageAnswers : llm' = [llm EXCEPT !.image = a]
                             ELSE llm' = llm
           /\ IF r.raised
              THEN pc' = "raised" /\ state' = state
              ELSE pc' = "decision_node" /\ state' = Commit(state, r.value)
    /\ UNCHANGED <<origin, input>>
    /\ UNCHANGED app_vars

\* the conditional edge after process_images
DecisionNode ==
    /\ pc = "decision_node"
    /\ LET route == decision_node(state)
       IN  /\ pre' = state
           /\ last' = [NoCall EXCEPT !.node = "decision_node", !.route = Some(route)]
           /\ pc' = DecisionPathMap[route]
    /\ UNCHANGED <<state, llm, origin, input, executed, callers>>
    /\ UNCHANGED app_vars

\* the node image_clarification_node, suspended at interrupt(), is resumed;
\* workflow.add_edge("image_clarification_node", "process_images")
ImageClarificationNode ==
    /\ pc = "image_clarification_node"
    /\ \E i \in Interrupt(ClarificationResumes) :
         LET user_response == i.value
             r == image_clarification_node(state, user_response)
         IN  /\ pre' = state
             /\ last' = Called("image_clarification_node", r, None, ResumeOf(i))
             /\ executed' = executed \cup {"image_clarification_node"}
             /\ IF r.raised
                THEN pc' = "raised" /\ state' = state
                ELSE pc' = "process_images" /\ state' = Commit(state, r.value)
    /\ UNCHANGED <<llm, origin, input, callers>>
    /\ UNCHANGED app_vars

\* the node generate_meal_recipe, then regenerate_meal suspends at interrupt()
GenerateMealRecipe ==
    /\ pc = "generate_meal_recipe"
    /\ Len(state.errors) < MaxErrors
    /\ 2 * Len(state.messages) <= MaxMsgs
    /\ LET r == generate_meal_recipe(state, llm.chef)
       IN  /\ pre' = state
           /\ last' = Called("generate_meal_recipe", r, Some(llm.chef), None)
           /\ executed' = executed \cup {"generate_meal_recipe"}
           /\ callers' = IF r.calls > 0 THEN callers \cup {"generate_meal_recipe"} ELSE callers
           /\ IF r.calls > 0 THEN \E a \in ChefAnswers : llm' = [llm EXCEPT !.chef = a]
                             ELSE llm' = llm
           /\ IF r.raised
              THEN pc' = "raised" /\ state' = state
              ELSE pc' = "regenerate_meal" /\ state' = Commit(state, r.value)
    /\ UNCHANGED <<origin, input>>
    /\ UNCHANGED app_vars

\* the conditional edge regenerate_meal is resumed with the human's answer
RegenerateMeal ==
    /\ pc = "regenerate_meal"
    /\ \E i \in Interrupt(Responses) :
         LET user_response == i.value
             route == regenerate_meal(state, user_response)
         IN  /\ pre' = state
             /\ last' = [NoCall EXCEPT !.node = "regenerate_meal",
                                       !.resume = ResumeOf(i),
                                       !.route = Some(route)]
             /\ pc' = RegeneratePathMap[route]
    /\ UNCHANGED <<state, llm, origin, input, executed, callers>>
    /\ UNCHANGED app_vars

Next ==
    \/ Start
    \/ ProcessImages
    \/ DecisionNode
    \/ ImageClarificationNode
    \/ GenerateMealRecipe
    \/ RegenerateMeal

Spec == Init /\ [][Next]_vars

\* ---------------------------------------------------------------- driver
\* src/app.py: the Streamlit pages that drive the compiled graph. The graph
\* is built once (st.cache_resource, lines 13-14), so its InMemorySaver is
\* shared by every invoke of a session.
Invoked(by, t, r) ==
    [by |-> by, thread_id |-> Some(t), fresh |-> IsNone(checkpoints[t]),
     raised |-> r.raised,
     result |-> IF r.raised THEN None ELSE Some(r.value)]
\* user_preferences as lines 168-172 store them
UserPreferences ==
    [goal : Goals, instructions : Instructions,
     images : {Some(<<p>>) : p \in ImagePaths}]

\* app.invoke(update, config) on the thread whose stored state is `stored`:
\* the update is applied to the stored channels (to the defaults on a thread
\* without a checkpoint), then nodes run until one raises or the run is
\* suspended at the clarification or the approve/reject interrupt.
app_invoke(stored, update, answers) ==
    LET s0 == Commit(IF IsNone(stored) THEN DefaultAgentState ELSE Val(stored), update)
        p == process_images(s0, answers.image)
    IN  IF p.raised
        THEN [raised |-> TRUE, exc |-> p.exc, value |-> s0, calls |-> p.calls]
        ELSE
        LET s1 == Commit(s0, p.value)
        IN  IF DecisionPathMap[decision_node(s1)] = "image_clarification_node"
            THEN [raised |-> FALSE, exc |-> "", value |-> s1, calls |-> p.calls]
            ELSE
            LET g == generate_meal_recipe(s1, answers.chef)
            IN  IF g.raised
                THEN [raised |-> TRUE, exc |-> g.exc, value |-> s1,
                      calls |-> p.calls + g.calls]
                ELSE [raised |-> FALSE, exc |-> "", value |-> Commit(s1, g.value),
                      calls |-> p.calls + g.calls]
\* the checkpointer and the adapter after an invoke on thread t
AfterInvoke(t, r) ==
    /\ checkpoints' = [checkpoints EXCEPT ![t] = Some(r.value)]
    /\ IF r.calls > 0 THEN llm' \in LLM ELSE llm' = llm

\* input page: a file is chosen in the uploader (lines 116-124)
Upload ==
    /\ pc = "app"
    /\ session.step = "input"
    /\ \E path \in ImagePaths :
         session' = [session EXCEPT !.uploaded_image_path = Some(path)]
    /\ UNCHANGED <<state, pc, llm, pre, last, origin, input, executed, callers,
                   checkpoints, run>>

\* input page: the Generate button (lines 166-225)
Generate ==
    /\ pc = "app"
    /\ session.step = "input"
    /\ ~IsNone(session.uploaded_image_path)
    /\ \E goal \in Goals, instructions \in Instructions :
         LET prefs == [goal |-> goal, instructions |-> instructions,
                       images |-> Some(<<Val(session.uploaded_image_path)>>)]
             t == session.thread_id
             r == app_invoke(checkpoints[t],
                             [current_conversation_input |-> Some(prefs)], llm)
             ss == [session EXCEPT !.user_preferences = Some(prefs)]
             ipo == r.value.image_processing_output
         IN  /\ run' = Invoked("Generate", t, r)
             /\ AfterInvoke(t, r)
             /\ IF r.raised
                THEN session' = ss
                ELSE IF ipo.clarification_needed = Some(TRUE)
                THEN session' = [ss EXCEPT !.detected_ingredients = Some(ipo.image_name),
                                           !.clarification_data = Some("question"),
                                           !.step = "clarify"]
                ELSE IF ~IsNone(r.value.meal_recipe)
                THEN session' = [ss EXCEPT !.detected_ingredients = Some(ipo.image_name),
                                           !.recipe_data = r.value.meal_recipe,
                                           !.step = "recipe"]
                ELSE session' = [ss EXCEPT !.detected_ingredients = Some(ipo.image_name)]
    /\ UNCHANGED <<state, pc, pre, last, origin, input, executed, callers>>

\* clarify page: the answer is sent on the session's thread (lines 250-270)
ClarifySubmit ==
    /\ pc = "app"
    /\ session.step = "clarify"
    /\ LET t == session.thread_id
           r == app_invoke(checkpoints[t], [text |-> "sweet potatoes"], llm)
       IN  /\ run' = Invoked("ClarifySubmit", t, r)
           /\ AfterInvoke(t, r)
           /\ IF ~r.raised /\ ~IsNone(r.value.meal_recipe)
              THEN session' = [session EXCEPT !.recipe_data = r.value.meal_recipe,
                                              !.step = "recipe"]
              ELSE session' = session
    /\ UNCHANGED <<state, pc, pre, last, origin, input, executed, callers>>

\* recipe page: the Try Different button (lines 339-366)
TryDifferent ==
    /\ pc = "app"
    /\ session.step = "recipe"
    /\ ~IsNone(session.recipe_data)
    /\ SessionCounter(session) < MaxCounter
    /\ IF IsNone(session.user_preferences)
       THEN UNCHANGED <<session, checkpoints, llm>>
            /\ run' = [NoRun EXCEPT !.by = "TryDifferent", !.raised = TRUE]
       ELSE LET old == Val(session.user_preferences)
                new_state == [current_conversation_input |-> Some(
                    [old EXCEPT !.instructions =
                        @ \o " Create a completely different recipe."])]
                new_thread == ThreadId(SessionCounter(session) + 1)
                r == app_invoke(checkpoints[new_thread], new_state, llm)
            IN  /\ run' = Invoked("TryDifferent", new_thread, r)
                /\ AfterInvoke(new_thread, r)
                /\ IF ~r.raised /\ ~IsNone(r.value.meal_recipe)
                   THEN session' = [session EXCEPT
                            !.recipe_data = r.value.meal_recipe,
                            !.counter = Some(SessionCounter(session) + 1)]
                   ELSE session' = session
    /\ UNCHANGED <<state, pc, pre, last, origin, input, executed, callers>>

\* recipe page: the Start Over button (lines 368-377)
StartOver_keep ==
    /\ pc = "app"
    /\ session.step = "recipe"
    /\ ~IsNone(session.recipe_data)
    /\ SessionCounter(session) < MaxCounter
    /\ session' = [session EXCEPT
            !.step = "input",
            !.thread_id = ThreadId(SessionCounter(session) + 1)]
    /\ run' = [NoRun EXCEPT !.by = "StartOver"]
    /\ UNCHANGED <<state, pc, llm, pre, last, origin, input, executed, callers,
                   checkpoints>>
StartOver ==
    /\ pc = "app"
    /\ session.step = "recipe"
    /\ ~IsNone(session.recipe_data)
    /\ SessionCounter(session) < MaxCounter
    /\ session' = [session EXCEPT
            !.step = "input",
            !.uploaded_image_path = None,
            !.user_preferences = None,
            !.clarification_data = None,
            !.recipe_data = None,
            !.detected_ingredients = None,
            !.thread_id = ThreadId(SessionCounter(session) + 1)]
    /\ run' = [NoRun EXCEPT !.by = "StartOver"]
    /\ UNCHANGED <<state, pc, llm, pre, last, origin, input, executed, callers,
                   checkpoints>>

\* A session as a page's handlers find it. origin "session": a new browser
\* session (lines 75-88). origin "page": the clarify or recipe page, shown
\* for a run that was invoked on the session's thread (lines 187-218,
\* 255-265) and, once the counter is set, for a Try Different run on
\* thread_{counter} (lines 352-362).
PageSessions ==
    {ss \in [step : {"clarify", "recipe"},
             thread_id : ThreadIds,
             uploaded_image_path : {Some(p) : p \in ImagePaths},
             user_preferences : {None} \cup {Some(u) : u \in UserPreferences},
             clarification_data : {None, Some("question")},
             recipe_data : {None} \cup {Some(r.output) : r \in {a \in ChefAnswers : a.ok}},
             detected_ingredients : {Some(Some("tomatoes"))},
             counter : {None} \cup {Some(n) : n \in 1 .. MaxCounter - 1}] :
        /\ (ss.step = "clarify") = (ss.clarification_data # None)
        /\ ss.step = "clarify" => (ss.recipe_data = None /\ ss.user_preferences # None)
        /\ ss.step = "recipe" => ss.recipe_data # None}
PageCheckpoints(ss) ==
    LET used == {ss.thread_id} \cup
                (IF IsNone(ss.counter) THEN {} ELSE {ThreadId(Val(ss.counter))})
        stored == [DefaultAgentState EXCEPT
                      !.current_conversation_input = ss.user_preferences,
                      !.meal_recipe = ss.recipe_data]
    IN  [t \in ThreadIds |-> IF t \in used THEN Some(stored) ELSE None]

InitApp ==
    /\ pc = "app"
    /\ \/ /\ origin = "session"
          /\ session = InitialSession
          /\ checkpoints = NoCheckpoints
       \/ /\ origin = "page"
          /\ session \in PageSessions
          /\ checkpoints = PageCheckpoints(session)
    /\ run = NoRun
    /\ llm \in LLM
    /\ state = DefaultAgentState
    /\ input = state
    /\ pre = state
    /\ last = NoCall
    /\ executed = {}
    /\ callers = {}

NextApp ==
    \/ Upload
    \/ Generate
    \/ ClarifySubmit
    \/ TryDifferent
    \/ StartOver

SpecApp == InitApp /\ [][NextApp]_vars

\* ================================================================= claims
MissingImages(s) ==
    \/ IsNone(s.current_conversation_input)
    \/ IsNone(Val(s.current_conversation_input).images)
    \/ Val(Val(s.current_conversation_input).images) = <<>>
HasImages(s) == ~MissingImages(s)
ResumeType(l) == DictGet(Val(l.resume), "type", NoneStr)

\* C1: decision_node returns the clarification route exactly when
\* clarification_needed is true, the recipe route when it is false or unset,
\* never a third value, and it leaves every field of the state as it was.
C1_DecisionTwoWay ==
    last.node = "decision_node" =>
        /\ Val(last.route) \in {"image_clarification_node", "generate_meal_recipe"}
        /\ (Val(last.route) = "image_clarification_node")
             <=> (pre.image_processing_output.clarification_needed = Some(TRUE))
        /\ pc = Val(last.route)
        /\ state = pre
C1_Witness ==
    /\ last.node = "decision_node"
    /\ pre.image_processing_output.clarification_needed = None
    /\ pc = "generate_meal_recipe"

\* C2: on a state without images process_images returns a state whose error
\* list grew by exactly one entry and whose ImageAnalysis is unchanged.
C2_MissingImagesRecorded ==
    (last.node = "process_images" /\ MissingImages(pre)) =>
        /\ ~last.raised
        /\ Len(state.errors) = Len(pre.errors) + 1
        /\ state.image_processing_output = pre.image_processing_output

C4_ChefErrorKeepsRecipe ==
    (last.node = "generate_meal_recipe" /\ ~last.raised /\ ~Val(last.answer).ok) =>
        /\ Len(state.errors) = Len(pre.errors) + 1
        /\ SubSeq(state.errors, 1, Len(pre.errors)) = pre.errors
        /\ state.errors[Len(state.errors)][1] = "Chef Error: "
        /\ state.meal_recipe = pre.meal_recipe
C4_Witness ==
    /\ last.node = "generate_meal_recipe"
    /\ ~Val(last.answer).ok
    /\ last.calls = 1
    /\ ~IsNone(pre.meal_recipe)
    /\ state.meal_recipe = pre.meal_recipe
    /\ Len(state.errors) = 2

\* C5: when the adapter returns a Recipe with an empty step list, the stored
\* recipe has the fixed three-step fallback as its step list.
C5_EmptyStepsFallback ==
    LET fallback == <<"fallback step 1", "fallback step 2", "fallback step 3">>
    IN  (/\ last.node = "generate_meal_recipe"
         /\ ~last.raised
         /\ Val(last.answer).ok
         /\ Val(last.answer).output.cooking_steps = Some(<<>>)) =>
            /\ ~IsNone(state.meal_recipe)
            /\ Val(state.meal_recipe).cooking_steps = Some(fallback)

\* C6: resuming the clarification with a text answer (type is not
\* "image_url") appends exactly one human message carrying the answer text to
\* the end of the log and leaves need_human false.
C6_TextResumeAppendsOne ==
    (last.node = "image_clarification_node" /\ ResumeType(last) # "image_url") =>
        /\ ~last.raised
        /\ state.messages =
             Append(pre.messages,
                    [role |-> "human",
                     content |-> <<[type |-> "str",
                                    text |-> DictGet(Val(last.resume), "text", "")]>>])
        /\ state.need_human = FALSE
        /\ pc = "process_images"
C6_Witness ==
    /\ last.node = "image_clarification_node"
    /\ Val(last.resume) = [text |-> "sweet potatoes"]
    /\ pre.need_human
    /\ Len(pre.messages) = 1
    /\ Len(state.messages) = 2
    /\ ~state.need_human

\* C7: resuming the clarification with an image-url answer replaces the image
\* list, whatever its length, by the one-element list of the submitted url,
\* keeps goal and instructions, and leaves need_human false.
C7_ImageResumeReplaces ==
    (/\ last.node = "image_clarification_node"
     /\ ResumeType(last) = "image_url"
     /\ ~IsNone(pre.current_conversation_input)) =>
        /\ ~last.raised
        /\ ~IsNone(state.current_conversation_input)
        /\ Val(state.current_conversation_input).images =
             Some(<<DictGet(Val(last.resume), "url", NoneStr)>>)
        /\ Val(state.current_conversation_input).goal =
             Val(pre.current_conversation_input).goal
        /\ Val(state.current_conversation_input).instructions =
             Val(pre.current_conversation_input).instructions
        /\ state.need_human = FALSE
C7_Witness ==
    /\ last.node = "image_clarification_node"
    /\ ResumeType(last) = "image_url"
    /\ ~IsNone(pre.current_conversation_input)
    /\ Val(pre.current_conversation_input).images = Some(<<"fridge.jpg", "fridge.jpg">>)
    /\ Val(state.current_conversation_input).images = Some(<<"new.jpg">>)
    /\ pre.need_human

\* C8: in a run invoked with goal, instructions and images, when the analysis
\* answer is a success with clarification_needed false and the recipe answer
\* is a success, process_images is followed by generate_meal_recipe without
\* the clarification node, and the state then holds a recipe with steps.
C8_EndToEnd ==
    (origin = "invoke" /\ HasImages(input)) =>
        /\ (/\ last.node = "process_images"
            /\ Val(last.answer).ok
            /\ Val(last.answer).output.clarification_needed = Some(FALSE)) =>
               /\ ~last.raised
               /\ state.image_processing_output = Val(last.answer).output
        /\ (last.node = "generate_meal_recipe" /\ Val(last.answer).ok) =>
               /\ "image_clarification_node" \notin executed
               /\ ~IsNone(state.meal_recipe)
               /\ ~IsNone(Val(state.meal_recipe).cooking_steps)
               /\ Val(Val(state.meal_recipe).cooking_steps) # <<>>

\* C9: when images are present and the adapter fails during process_images,
\* the error list grows by exactly the failure's message and ImageAnalysis
\* keeps the value it had before the node ran.
C9_AnalysisFailureRecorded ==
    (last.node = "process_images" /\ HasImages(pre) /\ ~Val(last.answer).ok) =>
        /\ ~last.raised
        /\ state.errors = Append(pre.errors, <<Val(last.answer).exc>>)
        /\ state.image_processing_output = pre.image_processing_output

\* C10: regenerate_meal routes back to generate_meal_recipe when the human
\* rejects or no recipe is stored, routes to END when the human approves a
\* stored recipe, and no other answer terminates the workflow.
C10_OnlyApprovalEnds ==
    LET rejects == {"False", "false", "reject"}
        approves == {"True", "approve"}
    IN  last.node = "regenerate_meal" =>
            /\ (IsNone(pre.meal_recipe) \/ Val(last.resume) \in rejects)
                    => pc = "generate_meal_recipe"
            /\ pc = "END" => (~IsNone(pre.meal_recipe) /\ Val(last.resume) \in approves)

\* C11: the message log only grows: after every step the log before the step
\* is a prefix of the log after it.
C11_LogOnlyGrows ==
    [][/\ Len(state'.messages) >= Len(state.messages)
       /\ SubSeq(state'.messages, 1, Len(state.messages)) = state.messages]_vars
C11_Witness ==
    /\ last.node = "image_clarification_node"
    /\ pre.messages # <<>>
    /\ Len(state.messages) = Len(pre.messages) + 1
    /\ SubSeq(state.messages, 1, Len(pre.messages)) = pre.messages

\* C12: meal_recipe changes only when generate_meal_recipe completes a
\* successful model call, so a run that started without a recipe has none
\* until then; no other node or decision sets it.
C12_RecipeOnlyFromGeneration ==
    [][state'.meal_recipe # state.meal_recipe =>
          /\ last'.node = "generate_meal_recipe"
          /\ ~last'.raised
          /\ last'.calls >= 1
          /\ Val(last'.answer).ok
          /\ state'.meal_recipe = Some(Val(last'.answer).output)]_vars
C12_Witness ==
    /\ IsNone(input.meal_recipe)
    /\ ~IsNone(state.meal_recipe)
    /\ last.node = "generate_meal_recipe"
    /\ Val(last.answer).ok

\* C13: every change of position follows an edge of the graph (START to
\* process_images, process_images by decision_node to the clarification node
\* or to generate_meal_recipe, the clarification node back to process_images,
\* generate_meal_recipe by regenerate_meal to itself or END), or ends the run
\* with a node's exception; process_images and the clarification node are
\* never entered once generate_meal_recipe has run.
C13_OnlyGraphEdges ==
    [][/\ pc' # pc =>
            \/ <<pc, pc'>> \in
                   {<<"START", "process_images">>,
                    <<"process_images", "decision_node">>,
                    <<"decision_node", "image_clarification_node">>,
                    <<"decision_node", "generate_meal_recipe">>,
                    <<"image_clarification_node", "process_images">>,
                    <<"generate_meal_recipe", "regenerate_meal">>,
                    <<"regenerate_meal", "generate_meal_recipe">>,
                    <<"regenerate_meal", "END">>}
            \/ /\ pc \in {"process_images", "image_clarification_node",
                           "generate_meal_recipe"}
               /\ pc' = "raised"
               /\ last'.raised
       /\ "generate_meal_recipe" \in executed =>
            pc' \notin {"START", "process_images", "decision_node",
                        "image_clarification_node"}]_vars
C13_Witness ==
    /\ last.node = "regenerate_meal"
    /\ pc = "generate_meal_recipe"
    /\ "generate_meal_recipe" \in executed

\* C14 as stated: an execution of process_images makes at most one
\* model-adapter call, none without images, and every execution of
\* generate_meal_recipe makes exactly one.
C14_ExactlyOneChefCall ==
    /\ last.node = "process_images" =>
            /\ last.calls <= 1
            /\ MissingImages(pre) => last.calls = 0
    /\ last.node = "generate_meal_recipe" => last.calls = 1
\* C14, the part that holds: generate_meal_recipe makes exactly one call when the state
\* has a ConversationInput and none when it has not (it raises before the
\* call); no execution of a node makes more than one call.
C14_AtMostOneCall ==
    /\ last.calls <= 1
    /\ last.node = "process_images" => (MissingImages(pre) => last.calls = 0)
    /\ last.node = "generate_meal_recipe" =>
            /\ ~IsNone(pre.current_conversation_input) => (last.calls = 1 /\ ~last.raised)
            /\ IsNone(pre.current_conversation_input) => (last.calls = 0 /\ last.raised)
    /\ last.node \in {"decision_node", "regenerate_meal", "image_clarification_node"}
            => last.calls = 0

\* C16: END is entered only from the approve/reject suspension and only by a
\* step that was given a resume value, and every returned execution of
\* generate_meal_recipe is followed by that suspension.
C16_EndNeedsHumanDecision ==
    [][/\ pc' = "END" =>
            /\ pc = "regenerate_meal"
            /\ last'.node = "regenerate_meal"
            /\ last'.resume # None
       /\ pc = "generate_meal_recipe" =>
            \/ pc' = "regenerate_meal" /\ ~last'.raised
            \/ pc' = "raised" /\ last'.raised]_vars
C16_Witness ==
    /\ pc = "END"
    /\ last.node = "regenerate_meal"
    /\ last.resume # None
    /\ "generate_meal_recipe" \in executed

\* C17: a run suspended at the clarification node or at the approve/reject
\* decision takes no step and changes no state except by the suspended
\* function being given a resume value; without one it stays where it is.
C17_SuspendedUntilResume ==
    [][(pc \in {"image_clarification_node", "regenerate_meal"}) =>
            (last'.node = pc /\ last'.resume # None /\ pre' = state)]_vars
C17_Witness ==
    /\ last.node = "image_clarification_node"
    /\ last.resume # None
    /\ pc = "process_images"
    /\ "process_images" \notin executed

\* C18: the analyse/clarify loop can go round again: a re-analysis after a
\* clarification resume whose model result sets clarification_needed returns
\* and routes to the clarification node once more.
C18_LoopGoesRoundAgain ==
    (/\ last.node = "process_images"
     /\ "image_clarification_node" \in executed
     /\ HasImages(pre)
     /\ Val(last.answer).ok
     /\ Val(last.answer).output.clarification_needed = Some(TRUE)) =>
        /\ ~last.raised
        /\ pc = "decision_node"
        /\ decision_node(state) = "image_clarification_node"

\* C19: a successful model call in process_images commits the model's result
\* as ImageAnalysis and the prior log followed by the system instruction and
\* one user turn holding all images; a failed call leaves the log as it was.
C19_AnalysisCommitted ==
    (last.node = "process_images" /\ HasImages(pre)) =>
        IF Val(last.answer).ok
        THEN /\ ~last.raised
             /\ state.image_processing_output = Val(last.answer).output
             /\ state.messages = pre.messages \o
                    <<image_system_prompt,
                      image_human_message(Val(Val(pre.current_conversation_input).images))>>
        ELSE state.messages = pre.messages

\* C20: retry_policy keeps the value the run started with, and the outcome of
\* every node and decision function is the same whatever value it holds.
RetryPolicies == 0 .. retry_policy_default
ForgetRetryPolicy(v) ==
    IF "retry_policy" \in DOMAIN v THEN [v EXCEPT !.retry_policy = 0] ELSE v
SameOutcome(a, b) ==
    /\ a.raised = b.raised
    /\ a.exc = b.exc
    /\ a.calls = b.calls
    /\ ForgetRetryPolicy(a.value) = ForgetRetryPolicy(b.value)
C20_RetryPolicyDead ==
    /\ state.retry_policy = input.retry_policy
    /\ \A rp \in RetryPolicies :
         LET other == [state EXCEPT !.retry_policy = rp]
         IN  /\ SameOutcome(process_images(other, llm.image),
                            process_images(state, llm.image))
             /\ SameOutcome(generate_meal_recipe(other, llm.chef),
                            generate_meal_recipe(state, llm.chef))
             /\ \A u \in ClarificationResumes :
                    SameOutcome(image_clarification_node(other, u),
                                image_clarification_node(state, u))
             /\ decision_node(other) = decision_node(state)
             /\ \A u \in Responses : regenerate_meal(other, u) = regenerate_meal(state, u)
C20_Witness ==
    /\ last.node = "generate_meal_recipe"
    /\ ~last.raised
    /\ ~Val(last.answer).ok
    /\ state.retry_policy = retry_policy_default
    /\ state.errors # pre.errors

\* C15: every new run the driver starts (Generate, Try Different) is invoked
\* under a thread id for which the checkpointer holds nothing from an earlier
\* invoke of the session.
C15_NewRunOnFreshThread ==
    run.by \in {"Generate", "TryDifferent"} /\ ~IsNone(run.thread_id) => run.fresh

\* C21: the error list only grows by appending, it grows only when images
\* are missing or the model adapter failed, and after such a failure the node
\* returns and the run is at the node's outgoing decision.
C21_ErrorsAppendOnlyNeverFatal ==
    /\ Len(state.errors) >= Len(pre.errors)
    /\ SubSeq(state.errors, 1, Len(pre.errors)) = pre.errors
    /\ state.errors # pre.errors =>
            \/ last.node = "process_images"
                    /\ (MissingImages(pre) \/ ~Val(last.answer).ok)
            \/ last.node = "generate_meal_recipe" /\ ~Val(last.answer).ok
    /\ (last.node = "process_images"
            /\ (MissingImages(pre) \/ ~Val(last.answer).ok)) =>
            /\ ~last.raised
            /\ pc = "decision_node"
            /\ Len(state.errors) = Len(pre.errors) + 1
    /\ (last.node = "generate_meal_recipe"
            /\ ~IsNone(pre.current_conversation_input)
            /\ ~Val(last.answer).ok) =>
            /\ ~last.raised
            /\ pc = "regenerate_meal"
            /\ Len(state.errors) = Len(pre.errors) + 1

\* C22: a run at END holds a recipe, and a run that started without one has
\* reached END only after generate_meal_recipe called the model.
C22_EndHoldsRecipe ==
    pc = "END" =>
        /\ ~IsNone(state.meal_recipe)
        /\ IsNone(input.meal_recipe) => "generate_meal_recipe" \in callers
C22_Witness ==
    /\ pc = "END"
    /\ IsNone(input.meal_recipe)
    /\ ~IsNone(state.meal_recipe)
    /\ last.node = "regenerate_meal"
    /\ Lower(Val(last.resume)) # "false"

\* C23: a clarification resume with a text answer leaves ConversationInput as
\* it was, one with an image-url answer leaves the message log as it was, and
\* neither changes ImageAnalysis, meal_recipe, the error list or retry_policy.
C23_ClarificationFrame ==
    (last.node = "image_clarification_node" /\ ~last.raised) =>
        /\ IF ResumeType(last) = "image_url"
           THEN state.messages = pre.messages
           ELSE state.current_conversation_input = pre.current_conversation_input
        /\ state.image_processing_output = pre.image_processing_output
        /\ state.meal_recipe = pre.meal_recipe
        /\ state.errors = pre.errors
        /\ state.retry_policy = pre.retry_policy
C23_Witness ==
    /\ last.node = "image_clarification_node"
    /\ ~last.raised
    /\ ResumeType(last) = "image_url"
    /\ pre.messages # <<>>
    /\ pre.errors # <<>>
    /\ state.current_conversation_input # pre.current_conversation_input

\* C25: a run invoked with images reaches END once the model has returned an
\* analysis without a clarification request and a recipe and the human has
\* approved; stated on finite runs: such a run is never ended by the
\* exception of a node, from which END cannot be reached.
C25_RunWithImagesNotStopped ==
    (origin = "invoke" /\ HasImages(input)) => pc # "raised"

\* C24: the driver's step is input, clarify or recipe; step is recipe only
\* with a recipe that an invocation returned, step becomes clarify only when
\* the analysis returned to the driver asked for clarification, and the step
\* from the recipe page back to input (Start Over) clears recipe_data,
\* clarification_data, detected_ingredients and the uploaded image path.
C24_Steps ==
    /\ (session'.recipe_data # session.recipe_data /\ ~IsNone(session'.recipe_data)) =>
            (~IsNone(run'.result)
                /\ session'.recipe_data = Val(run'.result).meal_recipe)
    /\ (session'.step = "recipe" /\ session.step # "recipe") =>
            (~IsNone(run'.result)
                /\ session'.recipe_data = Val(run'.result).meal_recipe)
    /\ (session'.step = "clarify" /\ session.step # "clarify") =>
            (~IsNone(run'.result)
                /\ Val(run'.result).image_processing_output.clarification_needed
                        = Some(TRUE))
    /\ (session.step = "recipe" /\ session'.step = "input") =>
            (IsNone(session'.recipe_data)
                /\ IsNone(session'.clarification_data)
                /\ IsNone(session'.detected_ingredients)
                /\ IsNone(session'.uploaded_image_path))
C24_Pages ==
    /\ session.step \in {"input", "clarify", "recipe"}
    /\ session.step = "recipe" => ~IsNone(session.recipe_data)
    /\ (session.step = "clarify" /\ ~IsNone(run.result)) =>
            Val(run.result).image_processing_output.clarification_needed = Some(TRUE)
====
